---- MODULE Spec2Model ----
(***************************************************************************)
(* Model of src/main.rs: lowering of a gate-level netlist to an AIG       *)
(* (AIG::parse_netlist), the topological order (AIG::calc_topo_order) and  *)
(* K-feasible cut enumeration with arrival / area-flow annotation          *)
(* (AIG::loopdeloop), driven in the order main() calls them.               *)
(*                                                                         *)
(* Node and PI indices are 0-based as in the source; the TLA+ sequences    *)
(* that hold them are 1-based, so nodes[idx + 1] is self.nodes[idx].       *)
(***************************************************************************)
EXTENDS Integers, Sequences, FiniteSets, TLC

\* Bounds of the model: input ports and cells of the top module.
MaxPI == 2
MaxCells == 2
\* Bounds of SpecLoopBody: PIs in the fan-in's cuts, stored cuts of the fan-in.
MaxLeaves == 4
MaxFaninCuts == 2

\* const LUT_SZ: usize = 4
LUT_SZ == 4

VARIABLES
    top_module,   \* the input: [npi, cells, outs] (bits 1..npi are the input ports)
    nets,         \* parse_netlist: bit -> NetAttrs [driver, input]
    pi,           \* AIG.pi, here the bit of each primary input, in index order
    pimap,        \* parse_netlist: bit -> pi index
    nodes,        \* AIG.nodes
    po,           \* AIG.po: sequence of [bit, ref]
    topo_order,   \* AIG.topo_order
    ports_done,   \* ports already visited by the running `for ... in ports` loop
    loop_i,       \* position of the running loop over po / topo_order
    pc,           \* where main() is
    err           \* the panic that ended the run, "" when none

vars == <<top_module, nets, pi, pimap, nodes, po, topo_order, ports_done, loop_i, pc, err>>

----------------------------------------------------------------------------
\* AIGRef: index, invert flag and PI flag packed in one u64.

AIGRef_new(idx, invert, is_pi) == [idx |-> idx, invert |-> invert, pi |-> is_pi]

noinv(r) == [r EXCEPT !.invert = FALSE]

inv(r) == [r EXCEPT !.invert = ~r.invert]

\* u32 arrival: either u32::MAX (the "not computed yet" value) or a small
\* value; nothing in between is reachable within the bounds.
U32_MAX == [max |-> TRUE, val |-> 0]

U32(v) == [max |-> FALSE, val |-> v]

U32_lt(x, y) == IF x.max THEN FALSE ELSE (y.max \/ x.val < y.val)

\* 1 + x in a release build (wrapping); a debug build panics on u32::MAX
U32_inc(x) == IF x.max THEN U32(0) ELSE U32(x.val + 1)

\* f32 area flow: either +infinity or a finite value.  Every finite value the
\* program computes is a sum of 1.0s, which f32 represents exactly (< 2^24).
F32_INFINITY == [inf |-> TRUE, val |-> 0]

F32(v) == [inf |-> FALSE, val |-> v]

F32_add(x, y) == IF x.inf \/ y.inf THEN F32_INFINITY ELSE F32(x.val + y.val)

F32_lt(x, y) == IF x.inf THEN FALSE ELSE (y.inf \/ x.val < y.val)

\* f32 division by a fanout count: only ever reached with count 1 (the mark
\* left by _topo_visit), where it is exact.
F32_div(x, n) == IF x.inf THEN x ELSE F32(x.val \div n)

AIGCut_trivial(nref) == [refs |-> {nref}, arrival |-> U32_MAX, area_flow |-> F32_INFINITY]

AIGNode_new(inp0, inp1) ==
    [inp0 |-> inp0, inp1 |-> inp1, num_fanouts |-> 0, cuts |-> <<>>,
     arrival |-> U32_MAX, area_flow |-> F32_INFINITY]

----------------------------------------------------------------------------
\* The input netlists: a top module with npi single-bit input ports (bits
\* 1..npi), n cells whose outputs are bits npi+1..npi+n, and a non-empty set
\* of output ports, each on the output bit of a cell.  Cell k reads only bits
\* below its own output, so the netlist is acyclic and every net is driven.

UnaryTypes == {"$_BUF_", "$_NOT_"}

BinaryTypes == {"$_AND_", "$_OR_", "$_NAND_", "$_NOR_", "$_XOR_", "$_XNOR_",
                "$_ANDNOT_", "$_ORNOT_"}

SupportedTypes == UnaryTypes \cup BinaryTypes

\* a gate type of the upstream library that process_cell does not know
UnsupportedTypes == {"$_MUX_"}

Cell(t, a, b, y) == [cell_type |-> t, A |-> a, B |-> b, Y |-> y]

\* B = 0: the cell has no B connection
CellsAt(y) ==
    {Cell(t, a, 0, y) : t \in UnaryTypes \cup UnsupportedTypes, a \in 1..(y - 1)}
    \cup {Cell(t, a, b, y) : t \in BinaryTypes, a \in 1..(y - 1), b \in 1..(y - 1)}

RECURSIVE CellSeqs(_, _)
CellSeqs(npi, n) ==
    IF n = 0 THEN {<<>>}
    ELSE {Append(s, c) : s \in CellSeqs(npi, n - 1), c \in CellsAt(npi + n)}

InputPorts == 1..top_module.npi

OutputPorts == top_module.outs

----------------------------------------------------------------------------
\* parse_netlist

Init ==
    /\ \E p \in 1..MaxPI, n \in 1..MaxCells :
          \E cs \in CellSeqs(p, n), os \in (SUBSET ((p + 1)..(p + n))) \ {{}} :
              top_module = [npi |-> p, cells |-> cs, outs |-> os]
    \* after "read netnames": every bit of the module is a named net
    /\ nets = [b \in 1..(top_module.npi + Len(top_module.cells)) |->
                  [driver |-> 0, input |-> FALSE]]
    /\ pi = <<>>
    /\ pimap = <<>>
    /\ nodes = <<>>
    /\ po = <<>>
    /\ topo_order = <<>>
    /\ ports_done = {}
    /\ loop_i = 0
    /\ pc = "read_cells"
    /\ err = ""

\* "read cells": every cell becomes the driver of its Y net
ReadCells ==
    /\ pc = "read_cells"
    /\ nets' = [b \in DOMAIN nets |->
                  IF \E k \in DOMAIN top_module.cells : top_module.cells[k].Y = b
                  THEN [nets[b] EXCEPT !.driver =
                           CHOOSE k \in DOMAIN top_module.cells : top_module.cells[k].Y = b]
                  ELSE nets[b]]
    /\ pc' = "read_inputs"
    /\ UNCHANGED <<top_module, pi, pimap, nodes, po, topo_order, ports_done, loop_i, err>>

\* "read input ports": one iteration of the loop, for an input port; the map
\* of ports is a HashMap, so the order of the ports is not fixed
ReadInputPort ==
    /\ pc = "read_inputs"
    /\ \E bitidx \in InputPorts \ ports_done :
        /\ nets[bitidx].driver = 0
        /\ nets' = [nets EXCEPT ![bitidx].input = TRUE]
        /\ pi' = Append(pi, bitidx)
        /\ pimap' = (bitidx :> Len(pi)) @@ pimap
        /\ ports_done' = IF ports_done \cup {bitidx} = InputPorts THEN {}
                         ELSE ports_done \cup {bitidx}
        /\ pc' = IF ports_done \cup {bitidx} = InputPorts THEN "read_outputs" ELSE pc
    /\ UNCHANGED <<top_module, nodes, po, topo_order, loop_i, err>>

\* mutant of add_cell: the returned edge is one slot too far
add_cell_offbyone(ns, n) ==
    [nodes |-> Append(ns, n), ref |-> AIGRef_new(Len(ns) + 1, FALSE, FALSE)]

add_cell(ns, n) == [nodes |-> Append(ns, n), ref |-> AIGRef_new(Len(ns), FALSE, FALSE)]

\* mutant of XorNodes: n2 reads a where it should read !a
XorNodes_samepolarity(ns, a, b) ==
    LET n1 == add_cell(ns, AIGNode_new(a, inv(b)))
        n2 == add_cell(n1.nodes, AIGNode_new(a, b))
    IN  add_cell(n2.nodes, AIGNode_new(inv(n1.ref), inv(n2.ref)))

\* mutant of XorNodes: the four-NAND form of XOR, one AND node more
XorNodes_fournand(ns, a, b) ==
    LET n1 == add_cell(ns, AIGNode_new(a, b))
        n2 == add_cell(n1.nodes, AIGNode_new(a, inv(n1.ref)))
        n3 == add_cell(n2.nodes, AIGNode_new(b, inv(n1.ref)))
    IN  add_cell(n3.nodes, AIGNode_new(inv(n2.ref), inv(n3.ref)))

\* the three AND nodes shared by the "$_XOR_" and "$_XNOR_" arms; the result
\* edge is n3, not inverted
XorNodes(ns, a, b) ==
    LET n1 == add_cell(ns, AIGNode_new(a, inv(b)))
        n2 == add_cell(n1.nodes, AIGNode_new(inv(a), b))
    IN  add_cell(n2.nodes, AIGNode_new(inv(n1.ref), inv(n2.ref)))

\* the AND nodes and the result edge of a two-input gate, given its lowered
\* inputs
Gate(t, ns, a, b) ==
    CASE t = "$_AND_" -> add_cell(ns, AIGNode_new(a, b))
      [] t = "$_OR_" ->
            LET r == add_cell(ns, AIGNode_new(inv(a), inv(b)))
            IN  [r EXCEPT !.ref = inv(r.ref)]
      [] t = "$_NAND_" ->
            LET r == add_cell(ns, AIGNode_new(a, b))
            IN  [r EXCEPT !.ref = inv(r.ref)]
      [] t = "$_NOR_" -> add_cell(ns, AIGNode_new(inv(a), inv(b)))
      [] t = "$_ANDNOT_" -> add_cell(ns, AIGNode_new(a, inv(b)))
      [] t = "$_ORNOT_" ->
            LET r == add_cell(ns, AIGNode_new(inv(a), b))
            IN  [r EXCEPT !.ref = inv(r.ref)]
      [] t = "$_XOR_" ->
            LET r == XorNodes(ns, a, b)
            IN  [r EXCEPT !.ref = inv(r.ref)]
      [] t = "$_XNOR_" -> XorNodes(ns, a, b)

\* mutant of MatchArm: an unknown type is taken for a buffer
MatchArm_lenient(t) == IF t \in SupportedTypes THEN t ELSE "$_BUF_"

\* the arm of `match &cell.cell_type as &str` a type string selects; "_" is
\* the default arm, which panics
MatchArm(t) == IF t \in SupportedTypes THEN t ELSE "_"

\* process_cell / process_input: [ok, nodes, ref]; ok = FALSE is the panic
\* "unknown cell type", which unwinds the whole recursion
RECURSIVE process_cell(_, _)
process_input(ns, yosys_net_idx) ==
    LET net == nets[yosys_net_idx]
    IN  IF net.input
        THEN [ok |-> TRUE, nodes |-> ns, ref |-> AIGRef_new(pimap[yosys_net_idx], FALSE, TRUE)]
        ELSE process_cell(ns, net.driver)

process_cell(ns, k) ==
    LET cell == top_module.cells[k]
        arm == MatchArm(cell.cell_type)
    IN  IF arm = "_" THEN [ok |-> FALSE, nodes |-> ns, ref |-> AIGRef_new(0, FALSE, FALSE)]
        ELSE IF arm = "$_BUF_" THEN process_input(ns, cell.A)
        ELSE IF arm = "$_NOT_" THEN
            LET a == process_input(ns, cell.A)
            IN  IF a.ok THEN [a EXCEPT !.ref = inv(a.ref)] ELSE a
        ELSE
            LET a == process_input(ns, cell.A)
            IN  IF ~a.ok THEN a
                ELSE LET b == process_input(a.nodes, cell.B)
                     IN  IF ~b.ok THEN b
                         ELSE LET g == Gate(arm, b.nodes, a.ref, b.ref)
                              IN  [ok |-> TRUE, nodes |-> g.nodes, ref |-> g.ref]

\* "read output ports": one iteration of the loop, for an output port
ReadOutputPort ==
    /\ pc = "read_outputs"
    /\ \E bitidx \in OutputPorts \ ports_done :
        /\ ~nets[bitidx].input
        /\ nets[bitidx].driver # 0
        /\ LET r == process_cell(nodes, nets[bitidx].driver)
               last == (ports_done \cup {bitidx} = OutputPorts)
           IN  IF r.ok
               THEN /\ nodes' = r.nodes
                    /\ po' = Append(po, [bit |-> bitidx, ref |-> r.ref])
                    /\ ports_done' = IF last THEN {} ELSE ports_done \cup {bitidx}
                    /\ pc' = IF last THEN "parsed" ELSE pc
                    /\ err' = err
               ELSE /\ pc' = "panic"
                    /\ err' = "UnsupportedCell"
                    /\ UNCHANGED <<nodes, po, ports_done>>
    /\ UNCHANGED <<top_module, nets, pi, pimap, topo_order, loop_i>>

----------------------------------------------------------------------------
\* main: aig.dump_dot("nodes", ...).  dump_dot calls po_ref.idx() on every PO
\* edge; idx() holds debug_assert!(!self.is_pi()), so with a PO edge on a PI
\* a build with debug assertions panics and a release build goes on.

PoOnPi == \E k \in DOMAIN po : po[k].ref.pi

DumpDotNodes ==
    /\ pc = "parsed"
    /\ \/ /\ pc' = "dumped"
          /\ err' = err
       \/ /\ PoOnPi
          /\ pc' = "panic"
          /\ err' = "idx() on a PI"
    /\ UNCHANGED <<top_module, nets, pi, pimap, nodes, po, topo_order, ports_done, loop_i>>

----------------------------------------------------------------------------
\* calc_topo_order

ClearFanouts(ns) == [k \in DOMAIN ns |-> [ns[k] EXCEPT !.num_fanouts = 0]]

\* mutant of _topo_visit: the mark is not looked at
RECURSIVE _topo_visit_unmarked(_, _)
_topo_visit_unmarked(st, nref) ==
    IF nref.pi THEN st
    ELSE LET s0 == _topo_visit_unmarked(st, st.nodes[nref.idx + 1].inp0)
             s1 == _topo_visit_unmarked(s0, s0.nodes[nref.idx + 1].inp1)
         IN  [nodes |-> [s1.nodes EXCEPT ![nref.idx + 1].num_fanouts = 1],
              topo_order |-> Append(s1.topo_order, nref.idx)]

\* mutant of _topo_visit: the node is pushed before its fan-ins are visited
RECURSIVE _topo_visit_preorder(_, _)
_topo_visit_preorder(st, nref) ==
    IF nref.pi THEN st
    ELSE IF st.nodes[nref.idx + 1].num_fanouts > 0 THEN st
    ELSE LET s0 == [nodes |-> [st.nodes EXCEPT ![nref.idx + 1].num_fanouts = 1],
                    topo_order |-> Append(st.topo_order, nref.idx)]
             s1 == _topo_visit_preorder(s0, s0.nodes[nref.idx + 1].inp0)
         IN  _topo_visit_preorder(s1, s1.nodes[nref.idx + 1].inp1)

\* _topo_visit on st = [nodes, topo_order]
RECURSIVE _topo_visit(_, _)
_topo_visit(st, nref) ==
    IF nref.pi THEN st
    ELSE IF st.nodes[nref.idx + 1].num_fanouts > 0 THEN st
    ELSE LET s0 == _topo_visit(st, st.nodes[nref.idx + 1].inp0)
             s1 == _topo_visit(s0, s0.nodes[nref.idx + 1].inp1)
         IN  [nodes |-> [s1.nodes EXCEPT ![nref.idx + 1].num_fanouts = 1],
              topo_order |-> Append(s1.topo_order, nref.idx)]

\* topo_order.clear() and the first reset of the marks
TopoBegin ==
    /\ pc = "dumped"
    /\ topo_order' = <<>>
    /\ nodes' = ClearFanouts(nodes)
    /\ loop_i' = 0
    /\ pc' = "topo_visit"
    /\ UNCHANGED <<top_module, nets, pi, pimap, po, ports_done, err>>

\* one iteration of `for i in 0..self.po.len()`
TopoVisitPo ==
    /\ pc = "topo_visit"
    /\ loop_i < Len(po)
    /\ LET st == _topo_visit([nodes |-> nodes, topo_order |-> topo_order], po[loop_i + 1].ref)
       IN  /\ nodes' = st.nodes
           /\ topo_order' = st.topo_order
    /\ loop_i' = loop_i + 1
    /\ UNCHANGED <<top_module, nets, pi, pimap, po, ports_done, pc, err>>

\* the second reset of the marks; calc_topo_order returns
TopoEnd ==
    /\ pc = "topo_visit"
    /\ loop_i = Len(po)
    /\ nodes' = ClearFanouts(nodes)
    /\ loop_i' = 0
    /\ pc' = "topo_done"
    /\ UNCHANGED <<top_module, nets, pi, pimap, po, topo_order, ports_done, err>>

----------------------------------------------------------------------------
\* loopdeloop

\* the candidate cuts of one fan-in: the stored cuts of the fan-in node (none
\* for a PI) followed by the trivial cut of the fan-in
FaninCuts(ns, f) ==
    (IF ~f.pi THEN ns[f.idx + 1].cuts ELSE <<>>) \o <<AIGCut_trivial(noinv(f))>>

\* mutant of Feasible: one leaf too many gets through
Feasible_offbyone(refs) == Cardinality(refs) <= LUT_SZ + 1

\* keep a union of at most LUT_SZ leaves
Feasible(refs) == Cardinality(refs) <= LUT_SZ

\* mutant of CrossProduct: the leaves of the inp1 cut are left out
CrossProduct_inp0only(inp0_cuts, inp1_cuts) ==
    LET n1 == Len(inp1_cuts)
        all == [k \in 1..(Len(inp0_cuts) * n1) |->
                   [refs |-> inp0_cuts[((k - 1) \div n1) + 1].refs,
                    arrival |-> U32_MAX,
                    area_flow |-> F32_INFINITY]]
    IN  SelectSeq(all, LAMBDA c : Cardinality(c.refs) <= LUT_SZ)

\* the cross product, inp0_cuts outer and inp1_cuts inner
CrossProduct(inp0_cuts, inp1_cuts) ==
    LET n1 == Len(inp1_cuts)
        all == [k \in 1..(Len(inp0_cuts) * n1) |->
                   [refs |-> inp0_cuts[((k - 1) \div n1) + 1].refs
                                \cup inp1_cuts[((k - 1) % n1) + 1].refs,
                    arrival |-> U32_MAX,
                    area_flow |-> F32_INFINITY]]
    IN  SelectSeq(all, LAMBDA c : Feasible(c.refs))

RemoveAt(s, i) == SubSeq(s, 1, i - 1) \o SubSeq(s, i + 1, Len(s))

\* cutj dominates cuti
Dominates(cutj, cuti) == cutj.refs \subseteq cuti.refs

\* mutant of FilterDominated: dominance is decided on the unfiltered list, so
\* two cuts with equal leaf sets remove each other
RECURSIVE FilterDominated_atonce(_, _)
FilterDominated_atonce(new_cuts, i) ==
    IF i > Len(new_cuts) THEN <<>>
    ELSE LET remove == \E j \in 1..Len(new_cuts) :
                          j # i /\ new_cuts[j].refs \subseteq new_cuts[i].refs
         IN  (IF remove THEN <<>> ELSE <<new_cuts[i]>>)
                \o FilterDominated_atonce(new_cuts, i + 1)

\* "filter dominated cuts": the while loop from position i (1-based) on
RECURSIVE FilterDominated(_, _)
FilterDominated(new_cuts, i) ==
    IF i > Len(new_cuts) THEN new_cuts
    ELSE LET remove == \E j \in 1..Len(new_cuts) :
                          j # i /\ Dominates(new_cuts[j], new_cuts[i])
         IN  IF remove THEN FilterDominated(RemoveAt(new_cuts, i), i)
             ELSE FilterDominated(new_cuts, i + 1)

LeafArrival(ns, cutref) == IF cutref.pi THEN U32(0) ELSE ns[cutref.idx + 1].arrival

\* the largest leaf arrival of a cut, starting from 0
MaxLeafArrival(ns, refs) ==
    LET S == {LeafArrival(ns, r) : r \in refs} \cup {U32(0)}
    IN  CHOOSE x \in S : \A y \in S : ~U32_lt(x, y)

\* mutant of CutArrival: the level of the LUT itself is not counted
CutArrival_noinc(ns, refs) ==
    LET S == {(IF r.pi THEN U32(0) ELSE ns[r.idx + 1].arrival) : r \in refs} \cup {U32(0)}
    IN  CHOOSE x \in S : \A y \in S : ~U32_lt(x, y)

CutArrival(ns, refs) == U32_inc(MaxLeafArrival(ns, refs))

LeafAreaFlow(ns, cutref) == IF cutref.pi THEN F32(0) ELSE ns[cutref.idx + 1].area_flow

RECURSIVE SumAreaFlow(_, _)
SumAreaFlow(ns, refs) ==
    IF refs = {} THEN F32(0)
    ELSE LET r == CHOOSE x \in refs : TRUE
         IN  F32_add(LeafAreaFlow(ns, r), SumAreaFlow(ns, refs \ {r}))

\* mutant of CutAreaFlow: the area of the LUT itself is not counted
CutAreaFlow_noone(ns, n, refs) ==
    IF n.num_fanouts > 0 THEN F32_div(SumAreaFlow(ns, refs), n.num_fanouts)
    ELSE SumAreaFlow(ns, refs)

CutAreaFlow(ns, n, refs) ==
    LET af == F32_add(SumAreaFlow(ns, refs), F32(1))
    IN  IF n.num_fanouts > 0 THEN F32_div(af, n.num_fanouts) ELSE af

\* new_cuts with every cut's arrival and area flow filled in
Annotate(ns, n, new_cuts) ==
    [k \in DOMAIN new_cuts |->
        [refs |-> new_cuts[k].refs,
         arrival |-> CutArrival(ns, new_cuts[k].refs),
         area_flow |-> CutAreaFlow(ns, n, new_cuts[k].refs)]]

BestArrival(cuts) ==
    LET S == {cuts[k].arrival : k \in DOMAIN cuts} \cup {U32_MAX}
    IN  CHOOSE x \in S : \A y \in S : ~U32_lt(y, x)

BestAreaFlow(cuts) ==
    LET S == {cuts[k].area_flow : k \in DOMAIN cuts} \cup {F32_INFINITY}
    IN  CHOOSE x \in S : \A y \in S : ~F32_lt(y, x)

\* the candidate list of node n before filtering
Candidates(ns, n) == CrossProduct(FaninCuts(ns, n.inp0), FaninCuts(ns, n.inp1))

\* the body of `for &nodei in &self.topo_order`: the node as stored
ProcessedNode(ns, nodei) ==
    LET n == ns[nodei + 1]
        new_cuts == Annotate(ns, n, FilterDominated(Candidates(ns, n), 1))
    IN  [n EXCEPT !.cuts = new_cuts,
                  !.arrival = BestArrival(new_cuts),
                  !.area_flow = BestAreaFlow(new_cuts)]

\* 1 + arrival overflows when a leaf still holds u32::MAX
ArrivalOverflows(ns, nodei) ==
    LET kept == FilterDominated(Candidates(ns, ns[nodei + 1]), 1)
    IN  \E k \in DOMAIN kept : MaxLeafArrival(ns, kept[k].refs).max

\* assert!(self.topo_order.len() > 0)
LoopBegin ==
    /\ pc = "topo_done"
    /\ IF Len(topo_order) > 0
       THEN /\ pc' = "cuts"
            /\ err' = err
       ELSE /\ pc' = "panic"
            /\ err' = "assert topo_order.len() > 0"
    /\ loop_i' = 0
    /\ UNCHANGED <<top_module, nets, pi, pimap, nodes, po, topo_order, ports_done>>

\* one iteration of the loop over topo_order
ProcessNode ==
    /\ pc = "cuts"
    /\ loop_i < Len(topo_order)
    /\ LET nodei == topo_order[loop_i + 1]
       IN  \/ /\ nodes' = [nodes EXCEPT ![nodei + 1] = ProcessedNode(nodes, nodei)]
              /\ loop_i' = loop_i + 1
              /\ UNCHANGED <<pc, err>>
           \/ /\ ArrivalOverflows(nodes, nodei)
              /\ pc' = "panic"
              /\ err' = "attempt to add with overflow"
              /\ UNCHANGED <<nodes, loop_i>>
    /\ UNCHANGED <<top_module, nets, pi, pimap, po, topo_order, ports_done>>

\* the loop is over: dump_dot("cuts", ...), then main returns.  A build whose
\* debug assertions reject a PO edge on a PI has panicked in DumpDotNodes.
LoopEnd ==
    /\ pc = "cuts"
    /\ loop_i = Len(topo_order)
    /\ pc' = "done"
    /\ UNCHANGED <<top_module, nets, pi, pimap, nodes, po, topo_order, ports_done, loop_i, err>>

Next ==
    \/ ReadCells
    \/ ReadInputPort
    \/ ReadOutputPort
    \/ DumpDotNodes
    \/ TopoBegin
    \/ TopoVisitPo
    \/ TopoEnd
    \/ LoopBegin
    \/ ProcessNode
    \/ LoopEnd

Spec == Init /\ [][Next]_vars

----------------------------------------------------------------------------
\* The body of loopdeloop's loop as a function of the fan-ins' stored cuts:
\* node 1 = AND(!node 0, f1) is the one node to process, and node 0 holds an
\* arbitrary list of at most MaxFaninCuts K-feasible cuts over the first
\* MaxLeaves PIs, equal leaf sets included.  f1 is one more PI, inverted, or
\* node 0 again.

LeafSets ==
    {r \in SUBSET {AIGRef_new(i, FALSE, TRUE) : i \in 0..(MaxLeaves - 1)} :
        r # {} /\ Cardinality(r) <= LUT_SZ}

\* a stored cut over the PIs, annotated as the loop body annotates it
PiCut(r) == [refs |-> r, arrival |-> U32(1), area_flow |-> F32(1)]

InitLoopBody ==
    /\ top_module = [npi |-> MaxLeaves + 1, cells |-> <<>>, outs |-> {}]
    /\ nets = <<>>
    /\ pi = [i \in 1..(MaxLeaves + 1) |-> i]
    /\ pimap = [i \in 1..(MaxLeaves + 1) |-> i - 1]
    /\ \E n \in 0..MaxFaninCuts :
       \E rs \in [1..n -> LeafSets] :
       \E f1 \in {AIGRef_new(MaxLeaves, TRUE, TRUE), AIGRef_new(0, FALSE, FALSE)} :
          nodes = <<[AIGNode_new(AIGRef_new(0, FALSE, TRUE), AIGRef_new(0, FALSE, TRUE))
                        EXCEPT !.cuts = [k \in 1..n |-> PiCut(rs[k])], !.arrival = U32(1), !.area_flow = F32(1)],
                    AIGNode_new(AIGRef_new(0, TRUE, FALSE), f1)>>
    /\ po = <<[bit |-> 0, ref |-> AIGRef_new(1, FALSE, FALSE)]>>
    /\ topo_order = <<1>>
    /\ ports_done = {}
    /\ loop_i = 0
    /\ pc = "cuts"
    /\ err = ""

NextLoopBody ==
    \/ ProcessNode
    \/ LoopEnd

SpecLoopBody == InitLoopBody /\ [][NextLoopBody]_vars

\* main on the netlists, together with the loop body on arbitrary stored cuts
InitCuts == Init \/ InitLoopBody

SpecCuts == InitCuts /\ [][Next]_vars

----------------------------------------------------------------------------
\* Reference semantics, used only by the properties below.

\* parse_netlist has returned (main may have gone on, or panicked later)
LoweringDone ==
    \/ pc \in {"parsed", "dumped", "topo_visit", "topo_done", "cuts", "done"}
    \/ pc = "panic" /\ err # "UnsupportedCell"

\* an assignment gives every primary input index a Boolean value
Assignments == [0..(Len(pi) - 1) -> BOOLEAN]

\* the value of an AIG edge: the AND of the fan-ins, or the PI, inverted when
\* the edge carries the inversion bit
RECURSIVE EvalRef(_, _, _)
EvalRef(ns, r, v) ==
    LET raw == IF r.pi THEN v[r.idx]
               ELSE EvalRef(ns, ns[r.idx + 1].inp0, v) /\ EvalRef(ns, ns[r.idx + 1].inp1, v)
    IN  raw # r.invert

\* textbook truth tables of the gate library
Textbook(t, a, b) ==
    CASE t = "$_BUF_" -> a
      [] t = "$_NOT_" -> ~a
      [] t = "$_AND_" -> a /\ b
      [] t = "$_OR_" -> a \/ b
      [] t = "$_NAND_" -> ~(a /\ b)
      [] t = "$_NOR_" -> ~(a \/ b)
      [] t = "$_ANDNOT_" -> a /\ ~b
      [] t = "$_ORNOT_" -> a \/ ~b
      [] t = "$_XOR_" -> a # b
      [] t = "$_XNOR_" -> a = b

\* the value of a net of the netlist under an assignment to the PIs
RECURSIVE NetValue(_, _)
NetValue(bit, v) ==
    IF bit <= top_module.npi THEN v[pimap[bit]]
    ELSE LET c == top_module.cells[bit - top_module.npi]
         IN  Textbook(c.cell_type, NetValue(c.A, v),
                      IF c.B = 0 THEN FALSE ELSE NetValue(c.B, v))

\* AND nodes a gate type stands for
ExpectedNodes(t) ==
    IF t \in {"$_XOR_", "$_XNOR_"} THEN 3 ELSE IF t \in UnaryTypes THEN 0 ELSE 1

\* C1: for each of the ten supported cell types and every assignment to the
\* primary inputs, the AIG that lowering produces evaluates at the PO edge to
\* the textbook truth table of the gate (here for every lowered netlist: each
\* PO edge evaluates to the value of its net, gates read by their textbook
\* tables), and a module of one cell has exactly 3 AND nodes for XOR and
\* XNOR, 1 for the other two-input gates and none for BUF and NOT.
C1_GateTruthTables ==
    LoweringDone =>
        /\ \A k \in DOMAIN po : \A v \in Assignments :
               EvalRef(nodes, po[k].ref, v) = NetValue(po[k].bit, v)
        /\ Len(top_module.cells) = 1 =>
               Len(nodes) = ExpectedNodes(top_module.cells[1].cell_type)

\* a one-cell XOR module on two different inputs has been lowered to 3 nodes
C1_Witness ==
    /\ pc = "parsed"
    /\ Len(top_module.cells) = 1
    /\ top_module.cells[1].cell_type = "$_XOR_"
    /\ top_module.cells[1].A # top_module.cells[1].B
    /\ Len(nodes) = 3
    /\ po[1].ref.invert

\* C8: every AND node's non-PI fan-in refers to a strictly lower node index,
\* every PI fan-in to a valid PI index, and every PO edge targets a valid node
\* index or a valid PI index.
ValidFanin(f, k) ==
    IF f.pi THEN f.idx \in 0..(Len(pi) - 1) ELSE f.idx \in 0..(k - 1)

C8_FaninsLowerPoValid ==
    /\ \A k \in DOMAIN nodes :
          ValidFanin(nodes[k].inp0, k - 1) /\ ValidFanin(nodes[k].inp1, k - 1)
    /\ \A k \in DOMAIN po : ValidFanin(po[k].ref, Len(nodes))

\* lowering is over with a node on a node fan-in and a node on a PI fan-in
C8_Witness ==
    /\ pc = "parsed"
    /\ \E k \in DOMAIN nodes : ~nodes[k].inp0.pi
    /\ \E k \in DOMAIN nodes : nodes[k].inp1.pi /\ nodes[k].inp1.idx = Len(pi) - 1
    /\ \E k \in DOMAIN po : ~po[k].ref.pi /\ po[k].ref.idx = Len(nodes) - 1

\* how often lowering the net `bit` calls process_cell: once for its driver
\* and once more for every cell below it, counted with repetition
RECURSIVE CellCalls(_)
CellCalls(bit) ==
    IF bit = 0 \/ bit <= top_module.npi THEN 0
    ELSE LET c == top_module.cells[bit - top_module.npi]
         IN  1 + CellCalls(c.A) + CellCalls(c.B)

RECURSIVE SumOver(_, _)
SumOver(S, bits) ==
    IF bits = {} THEN 0
    ELSE LET b == CHOOSE x \in bits : TRUE
         IN  S[b] + SumOver(S, bits \ {b})

AllBits == 1..(top_module.npi + Len(top_module.cells))

\* the readers of a net: cell connections and output ports
Readers(bit) ==
    Cardinality({k \in DOMAIN top_module.cells : top_module.cells[k].A = bit})
    + Cardinality({k \in DOMAIN top_module.cells : top_module.cells[k].B = bit})
    + (IF bit \in top_module.outs THEN 1 ELSE 0)

CellBits == (top_module.npi + 1)..(top_module.npi + Len(top_module.cells))

\* C9 as claimed: the number of AND nodes is at most 3 times the number of
\* cells of the top module, also when a cell output feeds several readers.
C9_AtMost3PerCell ==
    LoweringDone => Len(nodes) <= 3 * Len(top_module.cells)

\* C9 as amended: a cell is lowered once per reader, so the number of AND
\* nodes is at most 3 times the number of process_cell calls (cells of the
\* output cones counted with repetition); it is at most 3 times the number of
\* cells when no cell output has more than one reader.
C9_AtMost3PerCall ==
    LoweringDone =>
        /\ Len(nodes) <= 3 * SumOver([b \in AllBits |-> CellCalls(b)], top_module.outs)
        /\ (\A b \in CellBits : Readers(b) <= 1) =>
               Len(nodes) <= 3 * Len(top_module.cells)

\* a cell output with two readers has been lowered twice
C9_Witness ==
    /\ pc = "parsed"
    /\ \E b \in CellBits : Readers(b) = 2
    /\ Len(nodes) > 3 * Len(top_module.cells)
    /\ Len(nodes) = 3 * SumOver([b \in AllBits |-> CellCalls(b)], top_module.outs)

\* the cells lowering reaches from a net: a supported cell's A and B
\* connections are followed, an unsupported cell ends the descent
RECURSIVE ConeCells(_)
ConeCells(bit) ==
    IF bit = 0 \/ bit <= top_module.npi THEN {}
    ELSE LET k == bit - top_module.npi
             c == top_module.cells[k]
         IN  IF c.cell_type \in SupportedTypes
             THEN {k} \cup ConeCells(c.A) \cup ConeCells(c.B)
             ELSE {k}

Unsupported(k) == top_module.cells[k].cell_type \notin SupportedTypes

UnsupportedInCone ==
    \E b \in top_module.outs : \E k \in ConeCells(b) : Unsupported(k)

ReadingDone == pc \notin {"read_cells", "read_inputs", "read_outputs"}

\* C10 as claimed: lowering fails for every top module that contains a cell of
\* an unsupported type, in the fan-in cone of an output port or not.
C10_AnyUnsupportedFails ==
    (ReadingDone /\ \E k \in DOMAIN top_module.cells : Unsupported(k))
        => (pc = "panic" /\ err = "UnsupportedCell")

\* C10 as amended: lowering fails with UnsupportedCell exactly when a cell of
\* an unsupported type lies in the fan-in cone of an output port; such a cell
\* outside every cone is never looked at and lowering succeeds.
C10_UnsupportedInConeFails ==
    /\ ReadingDone => ((pc = "panic" /\ err = "UnsupportedCell") <=> UnsupportedInCone)
    /\ err = "UnsupportedCell" => UnsupportedInCone

\* lowering has succeeded on a module that holds an unsupported cell
C10_Witness ==
    /\ pc = "parsed"
    /\ \E k \in DOMAIN top_module.cells : Unsupported(k)
    /\ Len(nodes) > 0

----------------------------------------------------------------------------
\* Reference definitions for the topological order and the cuts.

\* calc_topo_order has returned
TopoDone ==
    \/ pc \in {"topo_done", "cuts", "done"}
    \/ pc = "panic" /\ err \in {"assert topo_order.len() > 0", "attempt to add with overflow"}

\* the AND nodes in the transitive fan-in of an edge, its own node included
RECURSIVE Cone(_)
Cone(r) ==
    IF r.pi THEN {}
    ELSE {r.idx} \cup Cone(nodes[r.idx + 1].inp0) \cup Cone(nodes[r.idx + 1].inp1)

\* the AND nodes strictly below node idx
FaninCone(idx) == Cone(nodes[idx + 1].inp0) \cup Cone(nodes[idx + 1].inp1)

ReachableFromPo == UNION {Cone(po[k].ref) : k \in DOMAIN po}

\* C2: after calc_topo_order, topo_order holds every AND node reachable from
\* some PO exactly once and no other node, every node comes after both of its
\* non-PI fan-in nodes, no later entry is a transitive fan-in of an earlier
\* one, and num_fanouts is 0 on every node.
C2_TopoOrder ==
    TopoDone =>
        /\ \A i, j \in DOMAIN topo_order : i # j => topo_order[i] # topo_order[j]
        /\ {topo_order[i] : i \in DOMAIN topo_order} = ReachableFromPo
        /\ \A i \in DOMAIN topo_order :
              \A f \in {nodes[topo_order[i] + 1].inp0, nodes[topo_order[i] + 1].inp1} :
                  ~f.pi => \E j \in 1..(i - 1) : topo_order[j] = f.idx
        /\ \A i, j \in DOMAIN topo_order :
              i < j => topo_order[j] \notin FaninCone(topo_order[i])
        /\ \A k \in DOMAIN nodes : nodes[k].num_fanouts = 0

\* the order of two POs is complete, and a node that is the fan-in of two
\* different nodes (met twice by the walk) is in it
C2_Witness ==
    /\ pc = "topo_done"
    /\ Len(po) = 2
    /\ Len(topo_order) >= 4
    /\ \E a, b \in DOMAIN nodes :
          /\ a # b
          /\ ~nodes[a].inp0.pi
          /\ nodes[a].inp0.idx = nodes[b].inp0.idx
          /\ ~nodes[b].inp0.pi

\* node idx has been through the loop body of loopdeloop
Processed(idx) ==
    /\ pc \in {"cuts", "done"}
    /\ \E j \in 1..loop_i : topo_order[j] = idx

StoredSets(idx) == {nodes[idx + 1].cuts[k].refs : k \in DOMAIN nodes[idx + 1].cuts}

\* the leaf sets a fan-in offers: those of its stored cuts and itself
FaninSets(f) == (IF f.pi THEN {} ELSE StoredSets(f.idx)) \cup {{noinv(f)}}

\* the K-feasible unions of one candidate of in0 with one of in1
FeasibleUnions(idx) ==
    {u \in {x \cup y : x \in FaninSets(nodes[idx + 1].inp0),
                       y \in FaninSets(nodes[idx + 1].inp1)} :
        Cardinality(u) <= LUT_SZ}

Minimal(S) == {m \in S : ~\E t \in S : t \subseteq m /\ t # m}

\* C3: the cuts stored at a node are exactly the subset-minimal leaf sets
\* among the K-feasible unions of a candidate of in0 with a candidate of in1,
\* each stored once: no stored cut is a subset of another stored cut, and of
\* several candidates with the same undominated leaf set exactly one is kept.
C3_MinimalCutsOnce ==
    \A idx \in 0..(Len(nodes) - 1) :
        Processed(idx) =>
            LET cuts == nodes[idx + 1].cuts
            IN  /\ \A i, j \in DOMAIN cuts : i # j => ~(cuts[i].refs \subseteq cuts[j].refs)
                /\ StoredSets(idx) = Minimal(FeasibleUnions(idx))

\* a processed node whose candidate list held the same undominated leaf set
\* twice, one of them stored
C3_Witness ==
    \E idx \in 0..(Len(nodes) - 1) :
        /\ Processed(idx)
        /\ LET cand == Candidates(nodes, nodes[idx + 1])
           IN  \E i, j \in DOMAIN cand :
                  /\ i # j
                  /\ cand[i].refs = cand[j].refs
                  /\ ~\E k \in DOMAIN cand :
                        cand[k].refs \subseteq cand[i].refs /\ cand[k].refs # cand[i].refs
                  /\ Cardinality({k \in DOMAIN nodes[idx + 1].cuts :
                                     nodes[idx + 1].cuts[k].refs = cand[i].refs}) = 1

\* C4: every stored cut has at most LUT_SZ leaves, every leaf has its
\* inversion bit cleared, and every leaf is a PI or an AND node of an index
\* strictly below the node's.
C4_CutLeaves ==
    \A k \in DOMAIN nodes : \A c \in DOMAIN nodes[k].cuts :
        /\ Cardinality(nodes[k].cuts[c].refs) <= LUT_SZ
        /\ \A l \in nodes[k].cuts[c].refs :
              /\ ~l.invert
              /\ IF l.pi THEN l.idx \in 0..(Len(pi) - 1) ELSE l.idx \in 0..(k - 2)

\* enumeration is over; some node stores a cut of LUT_SZ leaves, a larger union
\* was dropped, and a cut holds as a leaf a node reached by an inverted edge
C4_Witness ==
    /\ pc = "done"
    /\ \E k \in DOMAIN nodes :
          /\ \E c \in DOMAIN nodes[k].cuts : Cardinality(nodes[k].cuts[c].refs) = LUT_SZ
          /\ \E x \in FaninSets(nodes[k].inp0), y \in FaninSets(nodes[k].inp1) :
                Cardinality(x \cup y) > LUT_SZ
    /\ \E k \in DOMAIN nodes :
          /\ nodes[k].inp0.invert
          /\ ~nodes[k].inp0.pi
          /\ \E c \in DOMAIN nodes[k].cuts : noinv(nodes[k].inp0) \in nodes[k].cuts[c].refs

\* every path from the edge down to a PI meets a leaf of refs
RECURSIVE Covered(_, _)
Covered(r, refs) ==
    \/ noinv(r) \in refs
    \/ /\ ~r.pi
       /\ Covered(nodes[r.idx + 1].inp0, refs)
       /\ Covered(nodes[r.idx + 1].inp1, refs)

\* C5: every stored cut of a node is a genuine cut: every path from the node
\* down to a primary input passes through a leaf of the cut, so whenever two
\* assignments to the primary inputs give every leaf the same value they give
\* the node the same value.
C5_GenuineCuts ==
    \A k \in DOMAIN nodes : \A c \in DOMAIN nodes[k].cuts :
        LET refs == nodes[k].cuts[c].refs
        IN  /\ Covered(nodes[k].inp0, refs)
            /\ Covered(nodes[k].inp1, refs)
            /\ \A v, w \in Assignments :
                  (\A l \in refs : EvalRef(nodes, l, v) = EvalRef(nodes, l, w))
                      => (EvalRef(nodes, AIGRef_new(k - 1, FALSE, FALSE), v)
                            = EvalRef(nodes, AIGRef_new(k - 1, FALSE, FALSE), w))

\* a stored cut with a node leaf and a PI leaf, neither a fan-in of the node
C5_Witness ==
    /\ pc = "done"
    /\ \E k \in DOMAIN nodes : \E c \in DOMAIN nodes[k].cuts :
          LET refs == nodes[k].cuts[c].refs
          IN  /\ \E l \in refs : l.pi
              /\ \E l \in refs : ~l.pi
              /\ noinv(nodes[k].inp0) \notin refs
              /\ noinv(nodes[k].inp1) \notin refs

SetMax(S) == CHOOSE x \in S : \A y \in S : y <= x

SetMin(S) == CHOOSE x \in S : \A y \in S : x <= y

NodeLeaves(refs) == {l \in refs : ~l.pi}

\* C6: every stored cut's arrival is 1 + the maximum arrival over its leaves,
\* a PI leaf counting 0 and an AND leaf its node's finalised arrival, and
\* every processed node's arrival is the minimum arrival over its stored cuts.
C6_Arrival ==
    \A idx \in 0..(Len(nodes) - 1) :
        Processed(idx) =>
            LET n == nodes[idx + 1]
            IN  /\ n.cuts # <<>>
                /\ \A c \in DOMAIN n.cuts :
                      /\ \A l \in NodeLeaves(n.cuts[c].refs) :
                            Processed(l.idx) /\ ~nodes[l.idx + 1].arrival.max
                      /\ n.cuts[c].arrival =
                            U32(1 + SetMax({0} \cup {nodes[l.idx + 1].arrival.val :
                                                       l \in NodeLeaves(n.cuts[c].refs)}))
                /\ n.arrival = U32(SetMin({n.cuts[c].arrival.val : c \in DOMAIN n.cuts}))

\* a processed node of arrival 1 that also stores a cut of arrival 2, whose
\* leaves are a PI and a processed node
C6_Witness ==
    /\ pc = "done"
    /\ \E k \in DOMAIN nodes :
          /\ nodes[k].arrival = U32(1)
          /\ \E c \in DOMAIN nodes[k].cuts :
                /\ nodes[k].cuts[c].arrival = U32(2)
                /\ \E l \in nodes[k].cuts[c].refs : l.pi
                /\ \E l \in nodes[k].cuts[c].refs : ~l.pi

RECURSIVE SumVal(_, _)
SumVal(ns, ls) ==
    IF ls = {} THEN 0
    ELSE LET l == CHOOSE x \in ls : TRUE
         IN  ns[l.idx + 1].area_flow.val + SumVal(ns, ls \ {l})

\* C7: every stored cut's area flow is (1 + the sum of the area flows of its
\* non-PI leaves) / max(1, num_fanouts(n)), and the node's area flow is the
\* minimum over its stored cuts; num_fanouts is 0 on every node while the
\* enumeration runs, so the divisor is 1 and every area flow is a positive
\* integer.
C7_AreaFlow ==
    /\ pc = "cuts" => \A k \in DOMAIN nodes : nodes[k].num_fanouts = 0
    /\ \A idx \in 0..(Len(nodes) - 1) :
          Processed(idx) =>
              LET n == nodes[idx + 1]
                  div == IF n.num_fanouts > 1 THEN n.num_fanouts ELSE 1
              IN  /\ n.cuts # <<>>
                  /\ \A c \in DOMAIN n.cuts :
                        /\ ~n.cuts[c].area_flow.inf
                        /\ \A l \in NodeLeaves(n.cuts[c].refs) :
                              ~nodes[l.idx + 1].area_flow.inf
                        /\ n.cuts[c].area_flow.val * div =
                              1 + SumVal(nodes, NodeLeaves(n.cuts[c].refs))
                        /\ n.cuts[c].area_flow.val >= 1
                  /\ n.area_flow =
                        F32(SetMin({n.cuts[c].area_flow.val : c \in DOMAIN n.cuts}))

\* a processed node of area flow 1 that also stores a cut of area flow 3
C7_Witness ==
    /\ pc = "done"
    /\ \E k \in DOMAIN nodes :
          /\ nodes[k].area_flow = F32(1)
          /\ \E c \in DOMAIN nodes[k].cuts : nodes[k].cuts[c].area_flow = F32(3)

----------------------------------------------------------------------------
\* the panics of main that are failed assertions or arithmetic checks, as
\* opposed to the UnsupportedCell error of lowering
AssertionFailures ==
    {"idx() on a PI", "assert topo_order.len() > 0", "attempt to add with overflow"}

\* PI a, one BUF from a to the output port y
BufferChain ==
    top_module = [npi |-> 1, cells |-> <<Cell("$_BUF_", 1, 0, 2)>>, outs |-> {2}]

\* C11 as claimed: lowering, the dump of the raw AIG, calc_topo_order and cut
\* enumeration run without any assertion failure on every netlist, the buffer
\* chain (no AND node, the PO edge on PI 0) included.
C11_NoAssertionFailure ==
    pc = "panic" => err \notin AssertionFailures

\* the buffer chain has been lowered to no AND node with the PO edge on PI 0,
\* not inverted, its topo order is empty, and loopdeloop has failed its
\* assertion
C11_Witness ==
    /\ BufferChain
    /\ nodes = <<>>
    /\ Len(po) = 1
    /\ po[1].ref = AIGRef_new(0, FALSE, TRUE)
    /\ topo_order = <<>>
    /\ pc = "panic"
    /\ err = "assert topo_order.len() > 0"

----------------------------------------------------------------------------
\* the arrival a fan-in contributes: 0 for a PI, the node's arrival otherwise
FaninArrival(f) == IF f.pi THEN 0 ELSE nodes[f.idx + 1].arrival.val

\* the node the loop of loopdeloop is about to process
AboutToProcess == pc = "cuts" /\ loop_i < Len(topo_order)

\* C12: once cut enumeration has gone over a node of topo_order, the node has
\* at least one stored cut, an arrival of at least 1 and at most 1 + the
\* larger arrival of its two fan-ins (a PI counting 0) and a finite area
\* flow; when a node is about to be processed, every non-PI leaf of its
\* candidate cuts has been processed and holds a finite arrival, so u32::MAX
\* is never read and 1 + arrival never overflows; a node the loop has not gone
\* over, in topo_order or not, has no cuts and the values of AIGNode::new.
C12_Finalised ==
    /\ err # "attempt to add with overflow"
    /\ \A idx \in 0..(Len(nodes) - 1) :
          IF Processed(idx)
          THEN LET n == nodes[idx + 1]
               IN  /\ Len(n.cuts) >= 1
                   /\ ~n.arrival.max
                   /\ n.arrival.val >= 1
                   /\ \A f \in {n.inp0, n.inp1} :
                         ~f.pi => Processed(f.idx) /\ ~nodes[f.idx + 1].arrival.max
                   /\ n.arrival.val <=
                         1 + SetMax({FaninArrival(n.inp0), FaninArrival(n.inp1)})
                   /\ ~n.area_flow.inf
          ELSE pc \in {"topo_done", "cuts", "done"} =>
                   /\ nodes[idx + 1].cuts = <<>>
                   /\ nodes[idx + 1].arrival = U32_MAX
                   /\ nodes[idx + 1].area_flow = F32_INFINITY
    /\ AboutToProcess =>
          LET nodei == topo_order[loop_i + 1]
              cands == Candidates(nodes, nodes[nodei + 1])
          IN  /\ \A k \in DOMAIN cands :
                    \A l \in NodeLeaves(cands[k].refs) :
                        Processed(l.idx) /\ ~nodes[l.idx + 1].arrival.max
              /\ ~ArrivalOverflows(nodes, nodei)

\* enumeration is over, and a node whose fan-in is a processed node has an
\* arrival strictly below 1 + the larger arrival of its fan-ins, while one of
\* its stored cuts has that node as a leaf
C12_Witness ==
    /\ pc = "done"
    /\ \A idx \in 0..(Len(nodes) - 1) : Processed(idx)
    /\ \E k \in DOMAIN nodes :
          /\ ~nodes[k].inp0.pi
          /\ nodes[k].arrival.val <
                1 + SetMax({FaninArrival(nodes[k].inp0), FaninArrival(nodes[k].inp1)})
          /\ \E c \in DOMAIN nodes[k].cuts :
                \E l \in nodes[k].cuts[c].refs : ~l.pi

====
